---- MODULE Spec2Model ----
(***************************************************************************)
(* Model of carddav-to-ical-birthday-exporter.                             *)
(*                                                                         *)
(*   src/cardDavReader.js  getNextBirthday, fetchContacts, getICSString    *)
(*   src/server.js         localCache, updateCache, CronJob, GET route,    *)
(*                         app.listen                                      *)
(*                                                                         *)
(* Three specifications share the variables:                               *)
(*   SpecBirthday  one call of getNextBirthday, its while loop stepwise    *)
(*   SpecFeed      fetchContacts over a list of raw records, followed by   *)
(*                 two calls of getICSString on the result                 *)
(*   SpecServer    the server: startup, cron ticks, refreshes in flight,   *)
(*                 the node-cache entry with its TTL, GET /calendar.ics    *)
(*                                                                         *)
(* src/cardDavReader.js carries, after its exports (lines 151-217), a       *)
(* second copy of the server with a 3-hour cron period; the server is      *)
(* modelled from src/server.js.  The catch of updateCache (server.js       *)
(* 22-24) is never entered: fetchContacts catches what the fetch throws    *)
(* and nothing in the then-callback throws.                                *)
(*                                                                         *)
(* Strings are sequences of one-character strings.  A JavaScript Date is a *)
(* record [valid, y, m, d] (local calendar day, m in 1..12); the Invalid   *)
(* Date is InvalidDate.  A JavaScript number that may be NaN is a record   *)
(* [nan, n].                                                               *)
(***************************************************************************)
EXTENDS Integers, Sequences, FiniteSets, TLC

(***************************************************************************)
(* Calendar arithmetic: what dayjs and the JavaScript Date do with the     *)
(* values the code hands them.                                             *)
(***************************************************************************)

IsLeapYear(y) == (y % 4 = 0 /\ y % 100 # 0) \/ y % 400 = 0

DaysInMonth(y, m) ==
    IF m = 2 THEN (IF IsLeapYear(y) THEN 29 ELSE 28)
    ELSE IF m \in {4, 6, 9, 11} THEN 30 ELSE 31

MkDate(y, m, d) == [valid |-> TRUE, y |-> y, m |-> m, d |-> d]

InvalidDate == [valid |-> FALSE, y |-> 0, m |-> 0, d |-> 0]

NaN == [nan |-> TRUE, n |-> 0]

Num(n) == [nan |-> FALSE, n |-> n]

\* new Date(y, m0, d): m0 is the 0-based month and may lie outside 0..11, d may
\* lie outside the month; both overflow into the neighbouring month or year.
RECURSIVE DateOverflow(_, _, _)
DateOverflow(y, m, d) ==
    IF m < 1 THEN DateOverflow(y - 1, m + 12, d)
    ELSE IF m > 12 THEN DateOverflow(y + 1, m - 12, d)
    ELSE IF d < 1 THEN
        (IF m = 1 THEN DateOverflow(y - 1, 12, d + 31)
         ELSE DateOverflow(y, m - 1, d + DaysInMonth(y, m - 1)))
    ELSE IF d > DaysInMonth(y, m) THEN
        (IF m = 12 THEN DateOverflow(y + 1, 1, d - 31)
         ELSE DateOverflow(y, m + 1, d - DaysInMonth(y, m)))
    ELSE MkDate(y, m, d)

JSDate(y, m0, d) == DateOverflow(y, m0 + 1, d)

\* Days from 0000-03-01 to the date (proleptic Gregorian): the value a Date
\* difference is proportional to.
DayNumber(dt) ==
    LET yy == IF dt.m <= 2 THEN dt.y - 1 ELSE dt.y
        mm == IF dt.m <= 2 THEN dt.m + 9 ELSE dt.m - 3
    IN  365 * yy + (yy \div 4) - (yy \div 100) + (yy \div 400)
        + ((153 * mm + 2) \div 5) + dt.d - 1

\* a.isBefore(b, 'day'): a.endOf('day') < b.  An Invalid Date compares false.
IsBeforeDay(a, b) ==
    /\ a.valid
    /\ b.valid
    /\ \/ a.y < b.y
       \/ a.y = b.y /\ a.m < b.m
       \/ a.y = b.y /\ a.m = b.m /\ a.d < b.d

\* dayjs set('month' | 'year'): go to day 1, set the field, then set the day
\* to min(original day, days in the target month).
SetMonthYear(dt, y, m0) ==
    LET first == JSDate(y, m0, 1)
    IN  MkDate(first.y, first.m,
               IF dt.d < DaysInMonth(first.y, first.m)
               THEN dt.d ELSE DaysInMonth(first.y, first.m))

AddYears(dt, n) ==
    IF dt.valid THEN SetMonthYear(dt, dt.y + n, dt.m - 1) ELSE InvalidDate

AddMonths(dt, n) ==
    IF dt.valid THEN SetMonthYear(dt, dt.y, dt.m - 1 + n) ELSE InvalidDate

\* dayjs add(n, 'day'): setDate(getDate() + n) on the underlying Date.
AddDays(dt, n) ==
    IF dt.valid THEN JSDate(dt.y, dt.m - 1, dt.d + n) ELSE InvalidDate

\* a.diff(b, 'month') as dayjs computes it (Utils.m, after moment.js), as the
\* fraction <<numerator, denominator>> with a positive denominator.  Time
\* differences are taken in days: both operands are local midnights.
MonthDiffAnchored(a, b) ==
    LET whole == (b.y - a.y) * 12 + (b.m - a.m)
        anchor == AddMonths(a, whole)
        c == DayNumber(b) - DayNumber(anchor) < 0
        anchor2 == AddMonths(a, whole + (IF c THEN -1 ELSE 1))
        num == DayNumber(b) - DayNumber(anchor)
        den == IF c THEN DayNumber(anchor) - DayNumber(anchor2)
               ELSE DayNumber(anchor2) - DayNumber(anchor)
    IN  << -(whole * den + num), den >>

MonthDiff(a, b) ==
    IF a.d < b.d
    THEN LET r == MonthDiffAnchored(b, a) IN << -r[1], r[2] >>
    ELSE MonthDiffAnchored(a, b)

\* Truncation toward zero of n / d, d > 0 (dayjs Utils.a, absFloor).
AbsFloorDiv(n, d) == IF n >= 0 THEN n \div d ELSE -((-n) \div d)

\* a.diff(b, 'years'): the month difference over 12, truncated; NaN when either
\* date is invalid.
DiffYearsMonths(a, b) ==
    LET r == MonthDiff(a, b) IN Num(AbsFloorDiv(r[1], 12 * r[2]))

DiffYears(a, b) ==
    IF a.valid /\ b.valid THEN DiffYearsMonths(a, b) ELSE NaN

(***************************************************************************)
(* Strings.                                                                *)
(***************************************************************************)

Digits == {"0", "1", "2", "3", "4", "5", "6", "7", "8", "9"}

DigitChars == << "0", "1", "2", "3", "4", "5", "6", "7", "8", "9" >>

DigitVal(c) == (CHOOSE i \in 1..10 : DigitChars[i] = c) - 1

AllDigits(s) == \A i \in 1..Len(s) : s[i] \in Digits

\* Number(s) for a string of digits.
RECURSIVE ToNumber(_)
ToNumber(s) ==
    IF Len(s) = 0 THEN 0
    ELSE 10 * ToNumber(SubSeq(s, 1, Len(s) - 1)) + DigitVal(s[Len(s)])

\* n.toString() for n >= 0.
RECURSIVE NumToString(_)
NumToString(n) ==
    IF n < 10 THEN << DigitChars[n + 1] >>
    ELSE NumToString(n \div 10) \o << DigitChars[(n % 10) + 1] >>

\* s.substr(start, length), start 0-based, cut at the end of the string.
Substr(s, start, length) ==
    SubSeq(s, start + 1, IF start + length < Len(s) THEN start + length ELSE Len(s))

StartsWith(s, p) == Len(s) >= Len(p) /\ SubSeq(s, 1, Len(p)) = p

Includes(s, c) == \E i \in 1..Len(s) : s[i] = c

\* new Date(year, ...) reads a year in 0..99 as 1900 + year.
JSYear(y) == IF y <= 99 THEN 1900 + y ELSE y

\* dayjs(s) for the strings getNextBirthday hands it: REGEX_PARSE takes
\* YYYY-MM-DD and YYYYMMDD apart and builds new Date(y, m - 1, d), without
\* validating month or day; any other string that reaches it (the empty
\* string) goes to new Date(s), the Invalid Date.
DayjsParse(s) ==
    IF /\ Len(s) = 10
       /\ AllDigits(SubSeq(s, 1, 4)) /\ s[5] = "-"
       /\ AllDigits(SubSeq(s, 6, 7)) /\ s[8] = "-"
       /\ AllDigits(SubSeq(s, 9, 10))
    THEN JSDate(JSYear(ToNumber(SubSeq(s, 1, 4))),
                ToNumber(SubSeq(s, 6, 7)) - 1, ToNumber(SubSeq(s, 9, 10)))
    ELSE IF Len(s) = 8 /\ AllDigits(s)
    THEN JSDate(JSYear(ToNumber(SubSeq(s, 1, 4))),
                ToNumber(SubSeq(s, 5, 6)) - 1, ToNumber(SubSeq(s, 7, 8)))
    ELSE InvalidDate

(***************************************************************************)
(* getNextBirthday                                                         *)
(***************************************************************************)

\* Mutant of CurrentYearString: the year before the current one.
PreviousYearString(day) == NumToString(day.y - 1)

\* dayjs().year().toString()
CurrentYearString(day) == NumToString(day.y)

\* Lines 16-21: the string handed to dayjs.
BirthdayString(bdayString, day) ==
    IF StartsWith(bdayString, << "-", "-" >>)
    THEN CurrentYearString(day) \o Substr(bdayString, 2, 2) \o Substr(bdayString, 4, 2)
    ELSE bdayString

\* Lines 23-26: the loop, as a function of its state.
RECURSIVE AdvanceToToday(_, _)
AdvanceToToday(next, day) ==
    IF IsBeforeDay(next, day) THEN AdvanceToToday(AddYears(next, 1), day) ELSE next

GetNextBirthday(bdayString, day) ==
    LET bd == DayjsParse(BirthdayString(bdayString, day))
        nb == AdvanceToToday(bd, day)
    IN  [nextBirthday |-> nb, age |-> DiffYears(nb, bd)]

(***************************************************************************)
(* State.                                                                  *)
(***************************************************************************)

VARIABLES
    today,          \* dayjs(): the local calendar day of the ambient clock
    bdayString,     \* getNextBirthday: its argument
    gnbPc,          \* getNextBirthday: "idle", "loop" (line 24) or "done"
    birthdayDate,   \* getNextBirthday: line 22
    nextBirthday,   \* getNextBirthday: the loop's candidate
    iterations,     \* getNextBirthday: executions of line 25 so far
    gnbResult,      \* getNextBirthday: the value returned at line 27
    records,        \* fetchContacts: the address book objects the server returned
    contacts,       \* fetchContacts: the array it returns
    feedPc,         \* "idle", "records", "contacts", "ics1" or "ics2"
    ics1,           \* getICSString(contacts), first call
    ics2,           \* getICSString(contacts), second call on the same array
    started,        \* server: the app.listen callback has run
    now,            \* server: seconds since the process started
    inflight,       \* server: updateCache calls whose fetchContacts() is pending
    cache,          \* server: localCache's entry under CACHE_KEY
    response,       \* server: the last response of GET /calendar.ics
    lastFetch       \* server: how the last completed fetch ended

gnbVars == << bdayString, gnbPc, birthdayDate, nextBirthday, iterations, gnbResult >>

feedVars == << records, contacts, feedPc, ics1, ics2 >>

serverVars == << started, now, inflight, cache, response, lastFetch >>

vars == << today, gnbVars, feedVars, serverVars >>

(***************************************************************************)
(* Bounds and inputs.                                                      *)
(***************************************************************************)

\* Reference days range over the years 2023 .. 2023 + YearSpan.
YearSpan == 2

\* Birth years reach back MaxAge years before 2023 (and 1990, 2000 besides).
MaxAge == 3

TodayYears == 2023..(2023 + YearSpan)

BirthYears == {1990, 2000} \cup ((2023 - MaxAge)..(2023 + YearSpan + 1))

TodayMonthDays == { <<1, 1>>, <<2, 28>>, <<2, 29>>, <<3, 1>>, <<6, 1>>, <<12, 31>> }

Todays ==
    { MkDate(p[1], p[2][1], p[2][2]) :
        p \in { q \in TodayYears \X TodayMonthDays :
                  q[2][2] <= DaysInMonth(q[1], q[2][1]) } }

Pad2(n) == IF n < 10 THEN << "0" >> \o NumToString(n) ELSE NumToString(n)

\* The three BDAY value shapes of the regular expression at line 67.
IsoString(y, m, d) == NumToString(y) \o << "-" >> \o Pad2(m) \o << "-" >> \o Pad2(d)

CompactString(y, m, d) == NumToString(y) \o Pad2(m) \o Pad2(d)

YearlessString(m, d) == << "-", "-" >> \o Pad2(m) \o Pad2(d)

EmptyString == << >>

\* The values fetchContacts hands to getNextBirthday (its local `birthday`):
\* a captured YYYY-MM-DD, a captured --MMDD, or the empty string.
BirthdayArguments ==
    { IsoString(y, m, d) : y \in BirthYears, m \in 1..12, d \in 1..31 }
    \cup { YearlessString(m, d) : m \in 1..12, d \in 1..31 }
    \cup { EmptyString }

IdleResult == [nextBirthday |-> InvalidDate, age |-> NaN]

GnbIdle ==
    /\ bdayString = EmptyString
    /\ gnbPc = "idle"
    /\ birthdayDate = InvalidDate
    /\ nextBirthday = InvalidDate
    /\ iterations = 0
    /\ gnbResult = IdleResult

FeedIdle ==
    /\ records = << >>
    /\ contacts = << >>
    /\ feedPc = "idle"
    /\ ics1 = << >>
    /\ ics2 = << >>

NoEntry == [present |-> FALSE, v |-> << >>, t |-> 0]

NoResponse == [status |-> 0, text |-> "", feed |-> << >>]

ServerIdle ==
    /\ started = FALSE
    /\ now = 0
    /\ inflight = 0
    /\ cache = NoEntry
    /\ response = NoResponse
    /\ lastFetch = "none"

(***************************************************************************)
(* SpecBirthday: one call getNextBirthday(bdayString) on the day `today`.  *)
(***************************************************************************)

InitBirthday ==
    /\ today \in Todays
    /\ bdayString \in BirthdayArguments
    /\ gnbPc = "start"
    /\ birthdayDate = InvalidDate
    /\ nextBirthday = InvalidDate
    /\ iterations = 0
    /\ gnbResult = IdleResult
    /\ FeedIdle
    /\ ServerIdle

\* Lines 15-23.
GnbBegin ==
    /\ gnbPc = "start"
    /\ birthdayDate' = DayjsParse(BirthdayString(bdayString, today))
    /\ nextBirthday' = birthdayDate'
    /\ gnbPc' = "loop"
    /\ UNCHANGED << today, bdayString, iterations, gnbResult, feedVars, serverVars >>

\* Lines 24-25, one pass of the loop.
GnbAdvance ==
    /\ gnbPc = "loop"
    /\ IsBeforeDay(nextBirthday, today)
    /\ nextBirthday' = AddYears(nextBirthday, 1)
    /\ iterations' = iterations + 1
    /\ UNCHANGED << today, bdayString, gnbPc, birthdayDate, gnbResult, feedVars, serverVars >>

\* Line 27, once the loop condition is false.
GnbReturn ==
    /\ gnbPc = "loop"
    /\ ~IsBeforeDay(nextBirthday, today)
    /\ gnbResult' = [nextBirthday |-> nextBirthday,
                     age |-> DiffYears(nextBirthday, birthdayDate)]
    /\ gnbPc' = "done"
    /\ UNCHANGED << today, bdayString, birthdayDate, nextBirthday, iterations,
                    feedVars, serverVars >>

NextBirthday == GnbBegin \/ GnbAdvance \/ GnbReturn

SpecBirthday == InitBirthday /\ [][NextBirthday]_vars

(***************************************************************************)
(* Properties of getNextBirthday (SpecBirthday).                           *)
(***************************************************************************)

\* The birthday the argument denotes, read off the argument itself.
ArgHasYear == Len(bdayString) = 10

ArgIsYearless == Len(bdayString) = 6

ArgYear == ToNumber(SubSeq(bdayString, 1, 4))

ArgMonth ==
    IF ArgHasYear THEN ToNumber(SubSeq(bdayString, 6, 7))
    ELSE ToNumber(SubSeq(bdayString, 3, 4))

ArgDay ==
    IF ArgHasYear THEN ToNumber(SubSeq(bdayString, 9, 10))
    ELSE ToNumber(SubSeq(bdayString, 5, 6))

\* The argument names a day that exists: in the birth year when there is one,
\* in a leap year otherwise.
ArgIsRealDay ==
    /\ ArgHasYear \/ ArgIsYearless
    /\ ArgMonth \in 1..12
    /\ ArgDay >= 1
    /\ ArgDay <= DaysInMonth(IF ArgHasYear THEN ArgYear ELSE 2024, ArgMonth)

\* The person was born on or before `today` (always so without a birth year).
ArgNotInFuture ==
    ArgHasYear => ~IsBeforeDay(today, MkDate(ArgYear, ArgMonth, ArgDay))

\* C3: for every accepted birthday and every today, the date returned by
\* getNextBirthday is on or after today and is the earliest date on or after
\* today whose month and day are the birthday's.  Stated here for birthdays
\* that are real days not after today, and read leniently: the month and day
\* have to match only when the birthday's day exists in the returned year.
C3_NextOccurrenceIsEarliestMatch ==
    (gnbPc = "done" /\ ArgIsRealDay /\ ArgNotInFuture) =>
        LET r == gnbResult.nextBirthday IN
        /\ r.valid
        /\ ~IsBeforeDay(r, today)
        /\ ArgDay <= DaysInMonth(r.y, ArgMonth) => (r.m = ArgMonth /\ r.d = ArgDay)
        /\ \A y \in today.y..r.y :
              (/\ ArgDay <= DaysInMonth(y, ArgMonth)
               /\ ~IsBeforeDay(MkDate(y, ArgMonth, ArgDay), today))
              => ~IsBeforeDay(MkDate(y, ArgMonth, ArgDay), r)

\* C4: when the birth year is known, the age returned is a non-negative
\* integer equal to the year of the returned date minus the birth year; with
\* today = 2024-06-01, 1990-06-15 gives 34 and 1990-01-01 gives 2025-01-01
\* and 35.
C4_AgeIsYearDifference ==
    (gnbPc = "done" /\ ArgHasYear) =>
        /\ ~gnbResult.age.nan
        /\ gnbResult.age.n >= 0
        /\ gnbResult.age.n = gnbResult.nextBirthday.y - ArgYear
        /\ (today = MkDate(2024, 6, 1) /\ bdayString = IsoString(1990, 6, 15))
              => gnbResult = [nextBirthday |-> MkDate(2024, 6, 15), age |-> Num(34)]
        /\ (today = MkDate(2024, 6, 1) /\ bdayString = IsoString(1990, 1, 1))
              => gnbResult = [nextBirthday |-> MkDate(2025, 1, 1), age |-> Num(35)]

C4_Witness ==
    /\ gnbPc = "done"
    /\ today = MkDate(2024, 6, 1)
    /\ bdayString = IsoString(1990, 1, 1)
    /\ iterations = 35
    /\ gnbResult.age = Num(35)

\* C10 as stated: the loop of getNextBirthday runs at most 2 times.
C10_AtMostTwoIterations == iterations <= 2

\* The number of passes the loop can make: it starts from the birth date when
\* the birth year is known, from this year's date otherwise.
LoopBound ==
    IF ArgHasYear
    THEN (IF today.y - ArgYear + 1 > 0 THEN today.y - ArgYear + 1 ELSE 0)
    ELSE IF ArgIsYearless THEN 1 ELSE 0

\* C10 amended: the loop ends after at most max(0, year(today) - birth year + 1)
\* passes when the birth year is known and after at most 1 pass for a year-less
\* birthday.
C10_IterationsBoundedByAge ==
    /\ iterations <= LoopBound
    /\ (gnbPc = "loop" /\ iterations = LoopBound) => ~IsBeforeDay(nextBirthday, today)

C10_Witness ==
    /\ gnbPc = "done"
    /\ today = MkDate(2024, 6, 1)
    /\ bdayString = IsoString(1990, 6, 15)
    /\ iterations = 34

(***************************************************************************)
(* fetchContacts and getICSString.                                         *)
(*                                                                         *)
(* An address book object (a vCard text) is a record                       *)
(*   hasFN, fn     the FN: line and the name on it                         *)
(*   hasBDAY       the text contains 'BDAY'                                *)
(*   bdayParam     what stands between BDAY and the colon                  *)
(*   bdayValue     what follows the colon                                  *)
(***************************************************************************)

VCard(hasFN, fn, hasBDAY, bdayParam, bdayValue) ==
    [hasFN |-> hasFN, fn |-> fn, hasBDAY |-> hasBDAY,
     bdayParam |-> bdayParam, bdayValue |-> bdayValue]

NoMatch == [matched |-> FALSE, group |-> EmptyString]

Match(g) == [matched |-> TRUE, group |-> g]

\* Line 67: /BDAY(?:(?:;VALUE=date)?):(\d{8}|--\d{4}|\d{4}-\d{2}-\d{2})/.  The
\* alternatives are tried in order at the start of the value; nothing anchors
\* the end.
BdayRegexMatch(card) ==
    LET v == card.bdayValue IN
    IF ~(card.hasBDAY /\ card.bdayParam \in {"", ";VALUE=date"}) THEN NoMatch
    ELSE IF Len(v) >= 8 /\ AllDigits(SubSeq(v, 1, 8)) THEN Match(SubSeq(v, 1, 8))
    ELSE IF Len(v) >= 6 /\ v[1] = "-" /\ v[2] = "-" /\ AllDigits(SubSeq(v, 3, 6))
         THEN Match(SubSeq(v, 1, 6))
    ELSE IF /\ Len(v) >= 10
            /\ AllDigits(SubSeq(v, 1, 4)) /\ v[5] = "-"
            /\ AllDigits(SubSeq(v, 6, 7)) /\ v[8] = "-"
            /\ AllDigits(SubSeq(v, 9, 10))
         THEN Match(SubSeq(v, 1, 10))
    ELSE NoMatch

\* Lines 74-88: the local `birthday`; `captured` is the code's bdayString there.
ExtractBirthday(card) ==
    LET bdayMatch == BdayRegexMatch(card)
        captured == bdayMatch.group
    IN  IF ~bdayMatch.matched THEN EmptyString
        ELSE IF Includes(captured, "-") THEN captured
        ELSE IF StartsWith(captured, << "-", "-" >>)
             THEN << "-", "-" >> \o Substr(captured, 2, 2) \o << "-" >>
                  \o Substr(captured, 4, 2)
        ELSE Substr(captured, 0, 4) \o << "-" >> \o Substr(captured, 4, 2)
             \o << "-" >> \o Substr(captured, 6, 2)

\* Lines 70-71.
ExtractFullName(card) == IF card.hasFN THEN card.fn ELSE ""

\* Lines 89-93: the object pushed for one address book object.
MakeContact(card, day) ==
    LET r == GetNextBirthday(ExtractBirthday(card), day)
    IN  [fullName |-> ExtractFullName(card),
         birthday |-> ExtractBirthday(card),
         nextBirthday |-> r.nextBirthday,
         age |-> r.age]

\* Line 64: only objects whose text contains 'BDAY' are looked at.
HasBdayText(card) == card.hasBDAY

RECURSIVE CollectContacts(_, _)
CollectContacts(objects, day) ==
    IF objects = << >> THEN << >>
    ELSE (IF HasBdayText(Head(objects))
          THEN << MakeContact(Head(objects), day) >> ELSE << >>)
         \o CollectContacts(Tail(objects), day)

\* fetchContacts: `fetched` is what client.createAccount did, [ok, objects];
\* when it threw, the catch block returns the empty array.
FetchContacts(fetched, day) ==
    IF fetched.ok THEN CollectContacts(fetched.objects, day) ELSE << >>

\* Date getters; getMonth() is 0-based.
GetFullYear(dt) == IF dt.valid THEN Num(dt.y) ELSE NaN

GetMonth(dt) == IF dt.valid THEN Num(dt.m - 1) ELSE NaN

GetDate(dt) == IF dt.valid THEN Num(dt.d) ELSE NaN

PlusOne(x) == IF x.nan THEN NaN ELSE Num(x.n + 1)

\* Mutant of NextDay: the day of the month plus one, without carrying into the
\* next month.
NextDayNoCarry(dt) == IF dt.valid THEN MkDate(dt.y, dt.m, dt.d + 1) ELSE InvalidDate

\* dayjs(contact.nextBirthday).add(1, 'day').toDate()
NextDay(dt) == AddDays(dt, 1)

\* Lines 116-138: the event object built for one contact.  The code sets no
\* uid, so the ics library attaches one of its own making, `uid`, for this call.
MakeEvent(contact, uid) ==
    [title |-> << contact.fullName, contact.age >>,
     description |-> << contact.fullName, contact.age >>,
     start |-> << GetFullYear(contact.nextBirthday),
                  PlusOne(GetMonth(contact.nextBirthday)),
                  GetDate(contact.nextBirthday) >>,
     end |-> << GetFullYear(NextDay(contact.nextBirthday)),
                PlusOne(GetMonth(NextDay(contact.nextBirthday))),
                GetDate(NextDay(contact.nextBirthday)) >>,
     status |-> "CONFIRMED",
     alarm |-> [day |-> contact.nextBirthday, hour |-> 8, minute |-> 0],
     calName |-> "Geburtstage",
     uid |-> uid]

\* getICSString: one event per contact, in order; uids[i] is the identifier the
\* library generates for event i.
GetICSString(list, uids) == [i \in 1..Len(list) |-> MakeEvent(list[i], uids[i])]

(***************************************************************************)
(* SpecFeed: fetchContacts over the objects the server returned, then two  *)
(* calls of getICSString on the array it produced.                         *)
(***************************************************************************)

\* Length of the longest list of sample cards.
MaxRecords == 2

\* Sample address book objects: the three accepted shapes, no BDAY at all, a
\* value of the right shape with month 13 and day 45, and two values of no
\* accepted shape.
SampleCards ==
    { VCard(TRUE, "Ada", TRUE, "", IsoString(1990, 6, 15)),
      VCard(TRUE, "Bob", TRUE, ";VALUE=date", CompactString(2000, 2, 29)),
      VCard(FALSE, "", TRUE, "", YearlessString(12, 31)),
      VCard(TRUE, "Dee", FALSE, "", EmptyString),
      VCard(TRUE, "Eve", TRUE, "", IsoString(1990, 13, 45)),
      VCard(TRUE, "Fay", TRUE, "", << "1", "5", ".", "0", "6", ".", "1", "9", "9", "0" >>),
      VCard(TRUE, "Gus", TRUE, ";VALUE=text", << "c", "i", "r", "c", "a" >>) }

\* One card for every day of the year, in each shape.
CalendarCards ==
    { VCard(TRUE, "Ida", TRUE, "", IsoString(2001, m, d)) : m \in 1..12, d \in 1..31 }
    \cup { VCard(TRUE, "Jon", TRUE, ";VALUE=date", CompactString(2024, m, d)) :
             m \in 1..12, d \in 1..31 }
    \cup { VCard(TRUE, "Kai", TRUE, "", YearlessString(m, d)) : m \in 1..12, d \in 1..31 }

RecordLists ==
    UNION { [1..k -> SampleCards] : k \in 0..MaxRecords }
    \cup { << c >> : c \in CalendarCards }

\* The identifiers the ics library may attach to an event.
UIDs == {"uid-a", "uid-b"}

InitFeed ==
    /\ today \in Todays
    /\ records \in RecordLists
    /\ contacts = << >>
    /\ feedPc = "records"
    /\ ics1 = << >>
    /\ ics2 = << >>
    /\ GnbIdle
    /\ ServerIdle

\* fetchContacts() after client.createAccount resolved with `records`.
FetchContactsStep ==
    /\ feedPc = "records"
    /\ contacts' = FetchContacts([ok |-> TRUE, objects |-> records], today)
    /\ feedPc' = "contacts"
    /\ UNCHANGED << today, records, ics1, ics2, gnbVars, serverVars >>

\* getICSString(contacts)
GetICSFirst ==
    /\ feedPc = "contacts"
    /\ \E uids \in [1..Len(contacts) -> UIDs] : ics1' = GetICSString(contacts, uids)
    /\ feedPc' = "ics1"
    /\ UNCHANGED << today, records, contacts, ics2, gnbVars, serverVars >>

\* getICSString(contacts) again, on the same array.
GetICSSecond ==
    /\ feedPc = "ics1"
    /\ \E uids \in [1..Len(contacts) -> UIDs] : ics2' = GetICSString(contacts, uids)
    /\ feedPc' = "ics2"
    /\ UNCHANGED << today, records, contacts, ics1, gnbVars, serverVars >>

NextFeed == FetchContactsStep \/ GetICSFirst \/ GetICSSecond

SpecFeed == InitFeed /\ [][NextFeed]_vars

(***************************************************************************)
(* Properties of fetchContacts and getICSString (SpecFeed).                *)
(***************************************************************************)

\* What the specification's normalizer accepts: a BDAY field whose value is
\* YYYY-MM-DD, YYYYMMDD or --MMDD with month in 1..12 and day in 1..31.
Normalizes(card) ==
    /\ card.hasBDAY
    /\ card.bdayParam \in {"", ";VALUE=date"}
    /\ LET v == card.bdayValue
           iso == /\ Len(v) = 10
                  /\ AllDigits(SubSeq(v, 1, 4)) /\ v[5] = "-"
                  /\ AllDigits(SubSeq(v, 6, 7)) /\ v[8] = "-"
                  /\ AllDigits(SubSeq(v, 9, 10))
           compact == Len(v) = 8 /\ AllDigits(v)
           yearless == Len(v) = 6 /\ v[1] = "-" /\ v[2] = "-" /\ AllDigits(SubSeq(v, 3, 6))
           month == IF iso THEN ToNumber(SubSeq(v, 6, 7))
                    ELSE IF compact THEN ToNumber(SubSeq(v, 5, 6))
                    ELSE ToNumber(SubSeq(v, 3, 4))
           day == IF iso THEN ToNumber(SubSeq(v, 9, 10))
                  ELSE IF compact THEN ToNumber(SubSeq(v, 7, 8))
                  ELSE ToNumber(SubSeq(v, 5, 6))
       IN  /\ iso \/ compact \/ yearless
           /\ month \in 1..12
           /\ day \in 1..31

\* C2: the list fetchContacts produces has an entry for a record only if the
\* record has a BDAY field whose value normalizes; records without BDAY or
\* with a malformed BDAY contribute nothing, and the other records' entries
\* are all there, in order.
C2_OnlyNormalizedBirthdaysListed ==
    feedPc \in {"contacts", "ics1", "ics2"} =>
        LET kept == SelectSeq(records, Normalizes) IN
        /\ Len(contacts) = Len(kept)
        /\ \A i \in 1..Len(contacts) :
              /\ contacts[i].fullName = ExtractFullName(kept[i])
              /\ contacts[i].nextBirthday.valid

\* C7: every event's start is the contact's next-occurrence date and its end
\* is the calendar day right after the start, across month and year ends.
C7_EndIsDayAfterStart ==
    feedPc \in {"ics1", "ics2"} =>
        \A i \in 1..Len(contacts) :
            LET nb == contacts[i].nextBirthday
                ev == IF feedPc = "ics2" THEN ics2[i] ELSE ics1[i]
            IN  nb.valid =>
                /\ ev.start = << Num(nb.y), Num(nb.m), Num(nb.d) >>
                /\ \A k \in 1..3 : ~ev.end[k].nan
                /\ ev.end[2].n \in 1..12
                /\ ev.end[3].n \in 1..DaysInMonth(ev.end[1].n, ev.end[2].n)
                /\ DayNumber(MkDate(ev.end[1].n, ev.end[2].n, ev.end[3].n))
                      = DayNumber(nb) + 1

\* An event that starts on 31 December and ends on 1 January of the next year.
C7_Witness ==
    /\ feedPc = "ics1"
    /\ Len(contacts) = 1
    /\ contacts[1].nextBirthday = MkDate(2024, 12, 31)
    /\ ics1[1].start = << Num(2024), Num(12), Num(31) >>
    /\ ics1[1].end = << Num(2025), Num(1), Num(1) >>

\* C8: two calls of getICSString with the same contact list give the same
\* output, unique identifiers included.
C8_SameOutputOnRepeatedCall == feedPc = "ics2" => ics1 = ics2

(***************************************************************************)
(* SpecServer: src/server.js.                                              *)
(*                                                                         *)
(* Time moves in steps of the cron period: every step of the clock is a    *)
(* cron tick.  A refresh is in flight from the call of updateCache until   *)
(* the promise of fetchContacts settles; nothing makes it settle.          *)
(***************************************************************************)

\* new cache({ stdTTL: 60 * 60 * 24 }), seconds.
stdTTL == 60 * 60 * 24

\* '0 */1 * * *': the seconds between two cron ticks.
CronPeriod == 60 * 60

\* Cron ticks in a run.
MaxTicks == 25

\* The day the process starts on.
StartDay == MkDate(2024, 6, 15)

\* What the directory may hold when a fetch succeeds.
Directories ==
    { << >>,
      << VCard(TRUE, "Ada", TRUE, "", IsoString(2020, 6, 15)) >> }

Undefined == [defined |-> FALSE, v |-> << >>]

\* node-cache get(key): the value, or undefined when there is no entry or its
\* time to live has passed.
CacheGet(entry, time) ==
    IF entry.present /\ ~(entry.t < time)
    THEN [defined |-> TRUE, v |-> entry.v]
    ELSE Undefined

\* node-cache set(key, value): the entry lives stdTTL from now.
CacheSet(value, time) == [present |-> TRUE, v |-> value, t |-> time + stdTTL]

\* Mutant of Truthy: a feed without events counts as absent.
TruthyWhenNotEmpty(x) == x.defined /\ x.v # << >>

\* if (icalString): the cached value is the object ics.createEvents returned,
\* and an object is truthy whatever it holds.
Truthy(x) == x.defined

\* Lines 41-49: the response to GET /calendar.ics.
RouteResponse(entry, time) ==
    IF Truthy(CacheGet(entry, time))
    THEN [status |-> 200, text |-> "", feed |-> CacheGet(entry, time).v]
    ELSE [status |-> 404, text |-> "Calendar not found", feed |-> << >>]

\* Lines 17-19: the then-callback of updateCache.
StoredFeed(fetched, uids) == GetICSString(FetchContacts(fetched, today), uids)

InitServer ==
    /\ today = StartDay
    /\ GnbIdle
    /\ FeedIdle
    /\ ServerIdle

\* Lines 53-56: the app.listen callback calls updateCache().
Listen ==
    /\ ~started
    /\ started' = TRUE
    /\ inflight' = inflight + 1
    /\ UNCHANGED << today, now, cache, response, lastFetch, gnbVars, feedVars >>

\* Lines 27-35: a cron tick calls updateCache(), whatever is in flight.
CronTick ==
    /\ now < MaxTicks * CronPeriod
    /\ now' = now + CronPeriod
    /\ today' = AddDays(StartDay, now' \div (60 * 60 * 24))
    /\ inflight' = inflight + 1
    /\ UNCHANGED << started, cache, response, lastFetch, gnbVars, feedVars >>

\* fetchContacts() resolves with the directory's contacts; lines 17-19 store
\* the feed.
FetchResolves ==
    /\ inflight > 0
    /\ \E objects \in Directories :
         \E uids \in [1..Len(FetchContacts([ok |-> TRUE, objects |-> objects], today)) -> UIDs] :
            cache' = CacheSet(StoredFeed([ok |-> TRUE, objects |-> objects], uids), now)
    /\ inflight' = inflight - 1
    /\ lastFetch' = "ok"
    /\ UNCHANGED << today, started, now, response, gnbVars, feedVars >>

\* client.createAccount throws: the catch block of fetchContacts (lines
\* 100-103) resolves with [], and lines 17-19 store the feed made of it.
FetchThrows ==
    /\ inflight > 0
    /\ cache' = CacheSet(StoredFeed([ok |-> FALSE, objects |-> << >>], << >>), now)
    /\ inflight' = inflight - 1
    /\ lastFetch' = "error"
    /\ UNCHANGED << today, started, now, response, gnbVars, feedVars >>

\* Lines 41-49; node-cache deletes an expired entry when get() meets it.
GetCalendar ==
    /\ started
    /\ response' = RouteResponse(cache, now)
    /\ cache' = IF cache.present /\ cache.t < now THEN NoEntry ELSE cache
    /\ UNCHANGED << today, started, now, inflight, lastFetch, gnbVars, feedVars >>

\* node-cache's periodic check deletes an expired entry.
CheckData ==
    /\ cache.present
    /\ cache.t < now
    /\ cache' = NoEntry
    /\ UNCHANGED << today, started, now, inflight, response, lastFetch, gnbVars, feedVars >>

NextServer == Listen \/ CronTick \/ FetchResolves \/ FetchThrows \/ GetCalendar \/ CheckData

SpecServer == InitServer /\ [][NextServer]_vars

(***************************************************************************)
(* Properties of the server (SpecServer).                                  *)
(***************************************************************************)

\* C1: a refresh that fails after an earlier refresh stored a feed leaves the
\* cached feed unchanged: GET /calendar.ics answers after it what it answered
\* before it.
C1_FailedRefreshKeepsFeed ==
    [][ (/\ inflight' < inflight
         /\ lastFetch' = "error"
         /\ RouteResponse(cache, now).status = 200)
        => RouteResponse(cache', now') = RouteResponse(cache, now) ]_vars

\* C5: GET /calendar.ics answers 404 when no refresh has stored a feed yet,
\* and 200 with the stored feed once a refresh has completed (and its entry
\* has not outlived stdTTL), also when the feed has no events.
C5_NotFoundThenStoredFeed ==
    [][ /\ GetCalendar =>
            /\ lastFetch = "none" =>
                  (response'.status = 404 /\ response'.text = "Calendar not found")
            /\ (lastFetch # "none" /\ ~(cache.t < now)) =>
                  (response'.status = 200 /\ response'.feed = cache.v)
        /\ (inflight' < inflight) => (cache'.present /\ ~(cache'.t < now')) ]_vars

\* The feed of a refresh over an empty directory is served with 200.
C5_Witness ==
    /\ lastFetch = "ok"
    /\ cache.present
    /\ cache.v = << >>
    /\ response.status = 200
    /\ response.feed = << >>

\* C6: once a refresh has stored a feed, GET /calendar.ics answers 200 in
\* every later state and never reverts to 404.
C6_FeedStaysAvailable ==
    [][ RouteResponse(cache, now).status = 200
        => RouteResponse(cache', now').status = 200 ]_vars

\* C9: at most one refresh is in flight at any time.
C9_AtMostOneRefreshInFlight == inflight <= 1

====
